---- MODULE Spec2Model ----
\* Model of corramr/fast-db-searcher: the NL2SQL script (nl2sql_converter.py
\* with utils/helper.py and utils/prompt.py) and the batch route classifier
\* (router.py).  Both scripts are straight-line module-level programs; each
\* statement group is one action and `pc` / `rpc` is the position in the script.
EXTENDS Integers, Sequences, FiniteSets, TLC

\* ---------------------------------------------------------------------
\* Bounds
\* ---------------------------------------------------------------------
MaxRows == 4        \* rows a table of the modelled database may hold
MaxRecords == 3     \* records in queries.json

\* ---------------------------------------------------------------------
\* Python values.  A value is a record tagged by its Python type.
\* ---------------------------------------------------------------------
PyNone == [t |-> "NoneType"]
PyNaN == [t |-> "float", s |-> "nan"]
Unbound == [t |-> "unbound"]             \* a name that was never assigned
PyStr(s) == [t |-> "str", s |-> s]
PyBool(b) == [t |-> "bool", b |-> b]
PyList(items) == [t |-> "list", items |-> items]
PyDict(keys, vals) == [t |-> "dict", keys |-> keys, vals |-> vals]

\* bool(v): Python truth value, as used by `if sql_query:`
Truthy(v) ==
    CASE v.t = "NoneType" -> FALSE
      [] v.t = "str" -> v.s # ""
      [] v.t = "bool" -> v.b
      [] v.t = "float" -> TRUE            \* nan is truthy
      [] v.t = "list" -> Len(v.items) > 0
      [] v.t = "dict" -> Len(v.keys) > 0
      [] OTHER -> FALSE

HasKey(d, k) == \E i \in 1..Len(d.keys) : d.keys[i] = k

KeyIndex(d, k) == CHOOSE i \in 1..Len(d.keys) : d.keys[i] = k

\* d[k] = v on a dict: a repeated key keeps its position and takes the new value
DictSet(d, k, v) ==
    IF HasKey(d, k)
    THEN PyDict(d.keys, [d.vals EXCEPT ![KeyIndex(d, k)] = v])
    ELSE PyDict(Append(d.keys, k), Append(d.vals, v))

\* v[k] for a str subscript k: value or the exception Python raises
Subscript(v, k) ==
    IF v.t = "dict"
    THEN IF HasKey(v, k)
         THEN [exc |-> "", val |-> v.vals[KeyIndex(v, k)]]
         ELSE [exc |-> "KeyError", val |-> PyNone]
    ELSE [exc |-> "TypeError", val |-> PyNone]

\* ---------------------------------------------------------------------
\* json.loads.  A reply is a sequence of lexical tokens; the text the model
\* sent is their concatenation.
\* ---------------------------------------------------------------------
StringLit ==
    ("\"sql_query\"" :> "sql_query") @@ ("\"note\"" :> "note") @@
    ("\"SELECT 1\"" :> "SELECT 1") @@
    ("\"SELECT * FROM countries_data\"" :> "SELECT * FROM countries_data") @@
    ("\"SELEC\"" :> "SELEC") @@ ("\"\"" :> "")

ParseFail == [ok |-> FALSE, val |-> PyNone, next |-> 0]
ParseOk(v, n) == [ok |-> TRUE, val |-> v, next |-> n]

RECURSIVE ParseValue(_, _, _)
RECURSIVE ParseElements(_, _, _, _)
RECURSIVE ParseMembers(_, _, _, _)

\* elements of an array after "[" or ",": value, then "," or "]"
ParseElements(toks, i, acc, lenient) ==
    LET r == ParseValue(toks, i, lenient) IN
    IF ~r.ok \/ r.next > Len(toks) THEN ParseFail
    ELSE IF toks[r.next] = "," THEN ParseElements(toks, r.next + 1, Append(acc, r.val), lenient)
    ELSE IF toks[r.next] = "]" THEN ParseOk(PyList(Append(acc, r.val)), r.next + 1)
    ELSE ParseFail

\* members of an object after "{" or ",": string, ":", value, then "," or "}"
ParseMembers(toks, i, d, lenient) ==
    IF i + 1 > Len(toks) \/ toks[i] \notin DOMAIN StringLit \/ toks[i + 1] # ":" THEN ParseFail
    ELSE LET r == ParseValue(toks, i + 2, lenient) IN
         IF ~r.ok \/ r.next > Len(toks) THEN ParseFail
         ELSE IF toks[r.next] = ","
              THEN ParseMembers(toks, r.next + 1, DictSet(d, StringLit[toks[i]], r.val), lenient)
         ELSE IF toks[r.next] = "}"
              THEN ParseOk(DictSet(d, StringLit[toks[i]], r.val), r.next + 1)
         ELSE ParseFail

\* one JSON value starting at token i.  lenient = TRUE is Python's decoder,
\* which also accepts the literal NaN; lenient = FALSE is the RFC 8259 grammar.
ParseValue(toks, i, lenient) ==
    IF i > Len(toks) THEN ParseFail
    ELSE LET tk == toks[i] IN
         CASE tk \in DOMAIN StringLit -> ParseOk(PyStr(StringLit[tk]), i + 1)
           [] tk = "null" -> ParseOk(PyNone, i + 1)
           [] tk = "true" -> ParseOk(PyBool(TRUE), i + 1)
           [] tk = "false" -> ParseOk(PyBool(FALSE), i + 1)
           [] tk = "NaN" -> IF lenient THEN ParseOk(PyNaN, i + 1) ELSE ParseFail
           [] tk = "[" ->
                IF i + 1 <= Len(toks) /\ toks[i + 1] = "]"
                THEN ParseOk(PyList(<<>>), i + 2)
                ELSE ParseElements(toks, i + 1, <<>>, lenient)
           [] tk = "{" ->
                IF i + 1 <= Len(toks) /\ toks[i + 1] = "}"
                THEN ParseOk(PyDict(<<>>, <<>>), i + 2)
                ELSE ParseMembers(toks, i + 1, PyDict(<<>>, <<>>), lenient)
           [] OTHER -> ParseFail

\* the whole text must be one value; anything else is json.JSONDecodeError
Decode(toks, lenient) ==
    LET r == ParseValue(toks, 1, lenient) IN
    IF r.ok /\ r.next = Len(toks) + 1
    THEN [exc |-> "", val |-> r.val]
    ELSE [exc |-> "JSONDecodeError", val |-> PyNone]

json_loads(s) == Decode(s, TRUE)

\* ---------------------------------------------------------------------
\* The SQLite file at db_path, as the scripts find it.
\*   unopenable: sqlite3.connect raises OperationalError
\*   corrupt:    connect succeeds, every statement that reads the file raises
\*               DatabaseError
\*   ok:         a database holding `tables`, each with `nrows` rows
\* ---------------------------------------------------------------------
TableNames == {"cars_data", "countries_data"}

Databases ==
    {[kind |-> "unopenable", tables |-> {}, nrows |-> 0],
     [kind |-> "corrupt", tables |-> {}, nrows |-> 0],
     [kind |-> "ok", tables |-> {}, nrows |-> 0]}
    \cup [kind : {"ok"}, tables : (SUBSET TableNames) \ {{}}, nrows : 0..MaxRows]

\* rows of PRAGMA table_info: (cid, name, type, notnull, dflt_value, pk)
TableInfoRows ==
    << <<0, "name", "TEXT", 0, "NULL", 0>>, <<1, "population", "INTEGER", 0, "NULL", 0>> >>

TableRows(n) == [i \in 1..n |-> <<i, 100 + i>>]

Min(a, b) == IF a < b THEN a ELSE b

\* cursor.execute(f"PRAGMA table_info('{table_name}')"); fetchall()
PragmaTableInfo(dbf, table_name) ==
    IF dbf.kind = "corrupt" THEN [err |-> TRUE, rows |-> <<>>]
    ELSE IF table_name \in dbf.tables THEN [err |-> FALSE, rows |-> TableInfoRows]
    ELSE [err |-> FALSE, rows |-> <<>>]

\* cursor.execute(f"SELECT * FROM {table_name} LIMIT 3"); fetchall()
SelectLimit3(dbf, table_name) ==
    IF dbf.kind = "corrupt" \/ table_name \notin dbf.tables THEN [err |-> TRUE, rows |-> <<>>]
    ELSE [err |-> FALSE, rows |-> SubSeq(TableRows(dbf.nrows), 1, Min(3, dbf.nrows))]

\* cursor.execute(sql_query); fetchall() for the statements the model can return.
\* SQLite reads the file only for a statement that names a table, so "" and
\* "SELECT 1" succeed on a corrupt file as well.
ExecuteSQL(dbf, sql) ==
    CASE sql = "" -> [err |-> FALSE, rows |-> <<>>]
      [] sql = "SELECT 1" -> [err |-> FALSE, rows |-> << <<1>> >>]
      [] sql = "SELECT * FROM countries_data" ->
           IF dbf.kind # "corrupt" /\ "countries_data" \in dbf.tables
           THEN [err |-> FALSE, rows |-> TableRows(dbf.nrows)]
           ELSE [err |-> TRUE, rows |-> <<>>]
      [] OTHER -> [err |-> TRUE, rows |-> <<>>]

\* A connection object that was not closed and is no longer referenced when
\* the function returns: whether it is still open then depends on the
\* interpreter's object finalisation.
Unreferenced == {"open", "closed"}

ColumnDetails(rows) ==
    [i \in 1..Len(rows) |-> [column_id |-> rows[i][1], name |-> rows[i][2], type |-> rows[i][3]]]

\* get_column_info with the connect call outside the try block: a connection
\* failure leaves the function as an exception
get_column_info_raises(db_file, table_name) ==
    IF db_file.kind = "unopenable"
    THEN {[ret |-> PyNone, raised |-> TRUE, conn |-> "none", out |-> <<>>]}
    ELSE LET q == PragmaTableInfo(db_file, table_name) IN
         IF q.err
         THEN {[ret |-> PyNone, raised |-> FALSE, conn |-> c, out |-> <<"SQLite error">>] :
                  c \in Unreferenced}
         ELSE {[ret |-> PyList(ColumnDetails(q.rows)), raised |-> FALSE, conn |-> "closed",
                out |-> <<>>]}

\* utils/helper.py get_column_info: the set of possible outcomes of one call
\*   ret: returned value, raised: an exception left the function,
\*   conn: state of the connection the call opened, out: lines printed
get_column_info(db_file, table_name) ==
    IF db_file.kind = "unopenable"
    THEN {[ret |-> PyNone, raised |-> FALSE, conn |-> "none", out |-> <<"SQLite error">>]}
    ELSE LET q == PragmaTableInfo(db_file, table_name) IN
         IF q.err
         THEN {[ret |-> PyNone, raised |-> FALSE, conn |-> c, out |-> <<"SQLite error">>] :
                  c \in Unreferenced}
         ELSE {[ret |-> PyList(ColumnDetails(q.rows)), raised |-> FALSE, conn |-> "closed",
                out |-> <<>>]}

\* utils/helper.py get_table_sample
get_table_sample(db_file, table_name) ==
    IF db_file.kind = "unopenable"
    THEN {[ret |-> PyList(<<>>), raised |-> FALSE, conn |-> "none", out |-> <<"SQLite error">>]}
    ELSE LET q == SelectLimit3(db_file, table_name) IN
         IF q.err
         THEN {[ret |-> PyList(<<>>), raised |-> FALSE, conn |-> c, out |-> <<"SQLite error">>] :
                  c \in Unreferenced}
         ELSE {[ret |-> PyList(q.rows), raised |-> FALSE, conn |-> "closed", out |-> <<>>]}

\* ---------------------------------------------------------------------
\* utils/prompt.py: the template as its literal segments and placeholders
\* ---------------------------------------------------------------------
NL2SQL_PROMPT ==
    <<"instructions; <column_info table_name=", "{table_name}", ">", "{column_info}",
      "</column_info><table_sample table_name=", "{table_name}", ">", "{table_sample}",
      "</table_sample>; output format {\"sql_query\": <sql_query>}; query:", "{nl_query}">>

Placeholders == {"{table_name}", "{column_info}", "{table_sample}", "{nl_query}"}

\* str.format: each placeholder is replaced by the str() of its argument
Format(template, args) ==
    [i \in 1..Len(template) |->
        IF template[i] \in Placeholders THEN args[template[i]] ELSE PyStr(template[i])]

\* ---------------------------------------------------------------------
\* nl2sql_converter.py
\* ---------------------------------------------------------------------
TOPIC_TO_TEST == "countries"
cars_queries ==
    <<"What are the engine specifications for Vortex X1?",
      "Who between Vortex X1 and Avalon S has the highest fuel consumption?">>
countries_queries ==
    <<"What's the most common animal in Italy?", "How many habitants does Egypt have?">>

\* replies the hosted model may send (message.content), as token sequences
Replies ==
    {<<"{", "\"sql_query\"", ":", "\"SELECT 1\"", "}">>,
     <<"{", "\"sql_query\"", ":", "\"SELECT * FROM countries_data\"", "}">>,
     <<"{", "\"sql_query\"", ":", "\"SELEC\"", "}">>,
     <<"{", "\"sql_query\"", ":", "\"\"", "}">>,
     <<"{", "\"sql_query\"", ":", "null", "}">>,
     <<"{", "\"sql_query\"", ":", "true", "}">>,
     <<"{", "\"sql_query\"", ":", "NaN", "}">>,
     <<"{", "\"sql_query\"", ":", "\"SELECT 1\"", ",", "\"note\"", ":", "NaN", "}">>,
     <<"{", "\"sql_query\"", ":", "\"SELECT 1\"", ",", "\"sql_query\"", ":", "\"\"", "}">>,
     <<"{", "\"note\"", ":", "\"SELECT 1\"", "}">>,
     <<"{", "}">>,
     <<"[", "\"SELECT 1\"", "]">>,
     <<"\"SELECT 1\"">>,
     <<"null">>,
     <<"NaN">>,
     <<"Sure!">>,
     <<"Sure!", "{", "\"sql_query\"", ":", "\"SELECT 1\"", "}">>,
     <<"{", "\"sql_query\"", ":", "\"SELECT 1\"">>,
     <<>>}

Owners == {"get_column_info", "get_table_sample", "executor"}

VARIABLES
    pc,               \* position in nl2sql_converter.py
    db,               \* the file at db_path
    env,              \* which API-key environment variables are set
    table_name, column_info, table_sample, nl_query, prompt,
    client,           \* "none" | "ready"
    response,         \* completion.choices[0].message.content (token sequence)
    sql_query, result,
    conns,            \* per opener: "none" | "open" | "closed"
    stdout,           \* lines printed
    halted,           \* uncaught exception that ended the script, if any
    dbAccesses,       \* sqlite3.connect calls
    modelCalls,       \* chat.completions.create calls
    sentPrompt,       \* content of the user message sent to the model
    execInvocations,  \* times the `if sql_query:` block was entered
    execCalls         \* cursor.execute(sql_query) calls

nlvars == <<pc, db, env, table_name, column_info, table_sample, nl_query, prompt, client,
            response, sql_query, result, conns, stdout, halted, dbAccesses, modelCalls,
            sentPrompt, execInvocations, execCalls>>

VARIABLES
    rpc,              \* position in router.py
    renv,             \* TRUE iff OPENAI_API_KEY is set
    router,           \* what rl(text).name is for each text, at this point in time
    queriesFile,      \* queries.json: does it exist, and its records
    queries, idx,     \* the loaded list and the loop position (1-based)
    report,
    reportFile,       \* report.json: number of writes by this run and its text
    routerCalls,      \* rl(...) calls
    rhalted           \* uncaught exception that ended router.py, if any

rvars == <<rpc, renv, router, queriesFile, queries, idx, report, reportFile, routerCalls,
           rhalted>>

vars == <<nlvars, rvars>>

NotHalted == [at |-> "", exc |-> ""]

InitNL ==
    /\ pc = "column_info"
    /\ db \in Databases
    /\ env \in [OPENROUTER_API_KEY : BOOLEAN, OPENAI_API_KEY : BOOLEAN]
    /\ table_name = Unbound /\ column_info = Unbound /\ table_sample = Unbound
    /\ nl_query = Unbound /\ prompt = <<>> /\ sentPrompt = <<>>
    /\ client = "none" /\ response = <<>>
    /\ sql_query = Unbound /\ result = <<>>
    /\ conns = [o \in Owners |-> "none"]
    /\ stdout = <<>> /\ halted = NotHalted
    /\ dbAccesses = 0 /\ modelCalls = 0 /\ execInvocations = 0 /\ execCalls = 0

Halt(at, exc) == pc' = "halted" /\ halted' = [at |-> at, exc |-> exc]

TopicTable ==
    IF TOPIC_TO_TEST = "cars" THEN PyStr("cars_data")
    ELSE IF TOPIC_TO_TEST = "countries" THEN PyStr("countries_data")
    ELSE Unbound

TopicQuery ==
    IF TOPIC_TO_TEST = "cars" THEN PyStr(cars_queries[2])
    ELSE IF TOPIC_TO_TEST = "countries" THEN PyStr(countries_queries[2])
    ELSE Unbound

\* lines 22-26 / 30-32: table_name, column_info = get_column_info(db_path, table)
GetColumnInfo ==
    /\ pc = "column_info"
    /\ IF TopicTable = Unbound
       THEN /\ pc' = "prompt"
            /\ UNCHANGED <<table_name, column_info, conns, stdout, dbAccesses, halted>>
       ELSE \E o \in get_column_info(db, TopicTable.s) :
              /\ table_name' = TopicTable
              /\ dbAccesses' = dbAccesses + 1
              /\ conns' = [conns EXCEPT !["get_column_info"] = o.conn]
              /\ stdout' = stdout \o o.out
              /\ IF o.raised
                 THEN Halt("column_info", "sqlite3.Error") /\ UNCHANGED column_info
                 ELSE pc' = "table_sample" /\ column_info' = o.ret /\ UNCHANGED halted
    /\ UNCHANGED rvars
    /\ UNCHANGED <<db, env, table_sample, nl_query, prompt, client, response, sql_query,
                   result, modelCalls, sentPrompt, execInvocations, execCalls>>

\* lines 27-28 / 33-34: table_sample = get_table_sample(db_path, table); nl_query
GetTableSample ==
    /\ pc = "table_sample"
    /\ \E o \in get_table_sample(db, table_name.s) :
          /\ dbAccesses' = dbAccesses + 1
          /\ conns' = [conns EXCEPT !["get_table_sample"] = o.conn]
          /\ stdout' = stdout \o o.out
          /\ IF o.raised
             THEN Halt("table_sample", "sqlite3.Error") /\ UNCHANGED <<table_sample, nl_query>>
             ELSE /\ pc' = "prompt"
                  /\ table_sample' = o.ret
                  /\ nl_query' = TopicQuery
                  /\ UNCHANGED halted
    /\ UNCHANGED rvars
    /\ UNCHANGED <<db, env, table_name, column_info, prompt, client, response, sql_query,
                   result, modelCalls, sentPrompt, execInvocations, execCalls>>

\* lines 36-42: prompt = NL2SQL_PROMPT.format(...)
BuildPrompt ==
    /\ pc = "prompt"
    /\ IF Unbound \in {table_name, table_sample, column_info, nl_query}
       THEN Halt("prompt", "NameError") /\ UNCHANGED prompt
       ELSE /\ prompt' = Format(NL2SQL_PROMPT,
                                ("{table_name}" :> table_name) @@ ("{table_sample}" :> table_sample)
                                @@ ("{column_info}" :> column_info) @@ ("{nl_query}" :> nl_query))
            /\ pc' = "client"
            /\ UNCHANGED halted
    /\ UNCHANGED rvars
    /\ UNCHANGED <<db, env, table_name, column_info, table_sample, nl_query, client, response,
                   sql_query, result, conns, stdout, dbAccesses, modelCalls, sentPrompt,
                   execInvocations, execCalls>>

\* lines 44-48: client = OpenAI(base_url=..., api_key=os.getenv("OPENROUTER_API_KEY")).
\* The script does not test the key; the constructor, given api_key=None, reads
\* OPENAI_API_KEY from the environment and raises when that is unset as well.
MakeClient ==
    /\ pc = "client"
    /\ IF env.OPENROUTER_API_KEY \/ env.OPENAI_API_KEY
       THEN client' = "ready" /\ pc' = "call" /\ UNCHANGED halted
       ELSE Halt("client", "OpenAIError") /\ UNCHANGED client
    /\ UNCHANGED rvars
    /\ UNCHANGED <<db, env, table_name, column_info, table_sample, nl_query, prompt, response,
                   sql_query, result, conns, stdout, dbAccesses, modelCalls, sentPrompt,
                   execInvocations, execCalls>>

\* the model call wrapped in a handler that turns a transport error into an
\* absent query and carries on
CallModel_swallow ==
    /\ pc = "call"
    /\ modelCalls' = modelCalls + 1
    /\ sentPrompt' = prompt
    /\ \/ /\ sql_query' = PyNone
          /\ pc' = "run_query"
          /\ UNCHANGED <<response, stdout, halted>>
       \/ \E r \in Replies :
            /\ response' = r
            /\ stdout' = Append(stdout, "response")
            /\ pc' = "parse"
            /\ UNCHANGED <<halted, sql_query>>
    /\ UNCHANGED rvars
    /\ UNCHANGED <<db, env, table_name, column_info, table_sample, nl_query, prompt, client,
                   result, conns, dbAccesses, execInvocations, execCalls>>

\* lines 50-61: completion = client.chat.completions.create(...);
\* response = completion.choices[0].message.content; print(response).
\* The call either raises a transport error (authentication, network, rate
\* limit) or returns a reply.
CallModel ==
    /\ pc = "call"
    /\ modelCalls' = modelCalls + 1
    /\ sentPrompt' = prompt
    /\ \/ Halt("call", "APIError") /\ UNCHANGED <<response, stdout>>
       \/ \E r \in Replies :
            /\ response' = r
            /\ stdout' = Append(stdout, "response")
            /\ pc' = "parse"
            /\ UNCHANGED halted
    /\ UNCHANGED rvars
    /\ UNCHANGED <<db, env, table_name, column_info, table_sample, nl_query, prompt, client,
                   sql_query, result, conns, dbAccesses, execInvocations, execCalls>>

\* lines 63-73: json.loads(response)["sql_query"], except json.JSONDecodeError
ParseResponse ==
    /\ pc = "parse"
    /\ LET d == json_loads(response) IN
       IF d.exc = "JSONDecodeError"
       THEN /\ stdout' = Append(stdout, "Error: Could not decode the JSON string")
            /\ sql_query' = PyNone
            /\ pc' = "run_query"
            /\ UNCHANGED halted
       ELSE LET v == Subscript(d.val, "sql_query") IN
            IF v.exc # ""
            THEN Halt("parse", v.exc) /\ UNCHANGED <<sql_query, stdout>>
            ELSE /\ sql_query' = v.val
                 /\ pc' = "run_query"
                 /\ UNCHANGED <<halted, stdout>>
    /\ UNCHANGED rvars
    /\ UNCHANGED <<db, env, table_name, column_info, table_sample, nl_query, prompt, client,
                   response, result, conns, dbAccesses, modelCalls, sentPrompt,
                   execInvocations, execCalls>>

RowLines(rows) == [i \in 1..Len(rows) |-> "row"]

\* the execution block with one retry of cursor.execute after a SQLite error
RunQuery_retry ==
    /\ pc = "run_query"
    /\ IF ~Truthy(sql_query)
       THEN /\ pc' = "done"
            /\ UNCHANGED <<result, conns, stdout, halted, dbAccesses, execInvocations, execCalls>>
       ELSE /\ execInvocations' = execInvocations + 1
            /\ dbAccesses' = dbAccesses + 1
            /\ IF db.kind = "unopenable"
               THEN /\ stdout' = Append(stdout, "SQLite error")
                    /\ pc' = "done"
                    /\ UNCHANGED <<result, conns, halted, execCalls>>
               ELSE IF sql_query.t # "str"
                    THEN /\ Halt("run_query", "TypeError")
                         /\ execCalls' = execCalls + 1
                         /\ conns' = [conns EXCEPT !["executor"] = "open"]
                         /\ UNCHANGED <<result, stdout>>
                    ELSE LET q == ExecuteSQL(db, sql_query.s) IN
                         /\ pc' = "done"
                         /\ UNCHANGED halted
                         /\ IF q.err
                            THEN /\ execCalls' = execCalls + 2
                                 /\ stdout' = Append(stdout, "SQLite error")
                                 /\ conns' = [conns EXCEPT !["executor"] = "open"]
                                 /\ UNCHANGED result
                            ELSE /\ execCalls' = execCalls + 1
                                 /\ result' = q.rows
                                 /\ stdout' = Append(stdout, "SQL Query Result:")
                                                \o RowLines(q.rows)
                                 /\ conns' = [conns EXCEPT !["executor"] = "closed"]
    /\ UNCHANGED rvars
    /\ UNCHANGED <<db, env, table_name, column_info, table_sample, nl_query, prompt, client,
                   response, sql_query, modelCalls, sentPrompt>>

\* lines 75-87: if sql_query: connect, execute, fetchall, print, close,
\* except sqlite3.Error.  `conn` is a module-level name, so a connection the
\* block does not close stays referenced and open.
RunQuery ==
    /\ pc = "run_query"
    /\ IF ~Truthy(sql_query)
       THEN /\ pc' = "done"
            /\ UNCHANGED <<result, conns, stdout, halted, dbAccesses, execInvocations, execCalls>>
       ELSE /\ execInvocations' = execInvocations + 1
            /\ dbAccesses' = dbAccesses + 1
            /\ IF db.kind = "unopenable"
               THEN /\ stdout' = Append(stdout, "SQLite error")
                    /\ pc' = "done"
                    /\ UNCHANGED <<result, conns, halted, execCalls>>
               ELSE /\ execCalls' = execCalls + 1
                    /\ IF sql_query.t # "str"
                       THEN /\ Halt("run_query", "TypeError")
                            /\ conns' = [conns EXCEPT !["executor"] = "open"]
                            /\ UNCHANGED <<result, stdout>>
                       ELSE LET q == ExecuteSQL(db, sql_query.s) IN
                            /\ pc' = "done"
                            /\ UNCHANGED halted
                            /\ IF q.err
                               THEN /\ stdout' = Append(stdout, "SQLite error")
                                    /\ conns' = [conns EXCEPT !["executor"] = "open"]
                                    /\ UNCHANGED result
                               ELSE /\ result' = q.rows
                                    /\ stdout' = Append(stdout, "SQL Query Result:")
                                                   \o RowLines(q.rows)
                                    /\ conns' = [conns EXCEPT !["executor"] = "closed"]
    /\ UNCHANGED rvars
    /\ UNCHANGED <<db, env, table_name, column_info, table_sample, nl_query, prompt, client,
                   response, sql_query, modelCalls, sentPrompt>>


\* ---------------------------------------------------------------------
\* router.py
\* ---------------------------------------------------------------------
RouteNames == {"cars", "countries"}
QueryTexts == {"How fast is Vortex X1?", "What is the capital of Egypt?"}
InputRecords == [query : QueryTexts, category : RouteNames]

SeqsUpTo(S, n) == UNION {[1..k -> S] : k \in 0..n}

\* rl(text).name is a route name, or None when no route clears the threshold
RouterResults == {PyStr(r) : r \in RouteNames} \cup {PyNone}

\* json.dumps of the report: a str stays a string, None becomes null
JsonValue(v) == IF v.t = "NoneType" THEN [j |-> "null", s |-> ""] ELSE [j |-> "string", s |-> v.s]

json_dumps(rep) ==
    [i \in 1..Len(rep) |->
        [query |-> JsonValue(rep[i].query), category |-> JsonValue(rep[i].category),
         route |-> JsonValue(rep[i].route)]]

InitRouter ==
    /\ rpc = "encoder"
    /\ renv \in BOOLEAN
    /\ router \in [QueryTexts -> RouterResults]
    /\ queriesFile \in {[exists |-> FALSE, records |-> <<>>]}
                        \cup [exists : {TRUE}, records : SeqsUpTo(InputRecords, MaxRecords)]
    /\ queries = <<>> /\ idx = 0
    /\ report = <<>>
    /\ reportFile = [writes |-> 0, text |-> <<>>]
    /\ routerCalls = 0
    /\ rhalted = NotHalted

RHalt(at, exc) == rpc' = "halted" /\ rhalted' = [at |-> at, exc |-> exc]

\* lines 9-11: OPENAI_API_KEY = os.environ.get(...); encoder = OpenAIEncoder(...).
\* The script does not test the key; the encoder's constructor raises without it.
MakeEncoder ==
    /\ rpc = "encoder"
    /\ IF renv THEN rpc' = "router" /\ UNCHANGED rhalted
       ELSE RHalt("encoder", "ValueError")
    /\ UNCHANGED <<renv, router, queriesFile, queries, idx, report, reportFile, routerCalls>>
    /\ UNCHANGED nlvars

\* lines 13-19: routes; rl = SemanticRouter(encoder, routes, auto_sync="local").
\* Construction either succeeds or raises (embedding service failure).
MakeRouter ==
    /\ rpc = "router"
    /\ \/ rpc' = "load" /\ UNCHANGED rhalted
       \/ RHalt("router", "EncoderError")
    /\ UNCHANGED <<renv, router, queriesFile, queries, idx, report, reportFile, routerCalls>>
    /\ UNCHANGED nlvars

\* lines 21-26: queries = json.load(open("queries.json")); report = []
LoadQueries ==
    /\ rpc = "load"
    /\ IF queriesFile.exists
       THEN /\ queries' = queriesFile.records
            /\ idx' = 1
            /\ report' = <<>>
            /\ rpc' = "loop"
            /\ UNCHANGED rhalted
       ELSE RHalt("load", "FileNotFoundError") /\ UNCHANGED <<queries, idx, report>>
    /\ UNCHANGED <<renv, router, queriesFile, reportFile, routerCalls>>
    /\ UNCHANGED nlvars

\* the loop body inserting each entry at the front of the report
Classify_prepend ==
    /\ rpc = "loop"
    /\ idx <= Len(queries)
    /\ routerCalls' = routerCalls + 1
    /\ LET query == queries[idx] IN
       \/ RHalt("loop", "EncoderError") /\ UNCHANGED <<idx, report>>
       \/ /\ report' = <<[query |-> PyStr(query.query),
                           category |-> PyStr(query.category),
                           route |-> router[query.query]]>> \o report
          /\ idx' = idx + 1
          /\ UNCHANGED <<rpc, rhalted>>
    /\ UNCHANGED <<renv, router, queriesFile, queries, reportFile>>
    /\ UNCHANGED nlvars

\* the loop body catching a router failure and moving on to the next record
Classify_skip ==
    /\ rpc = "loop"
    /\ idx <= Len(queries)
    /\ routerCalls' = routerCalls + 1
    /\ idx' = idx + 1
    /\ LET query == queries[idx] IN
       \/ UNCHANGED report
       \/ report' = Append(report, [query |-> PyStr(query.query),
                                     category |-> PyStr(query.category),
                                     route |-> router[query.query]])
    /\ UNCHANGED <<rpc, rhalted>>
    /\ UNCHANGED <<renv, router, queriesFile, queries, reportFile>>
    /\ UNCHANGED nlvars

\* lines 28-38: one iteration of the loop: route = rl(query["query"]).name,
\* report.append({...}).  The router call either raises or answers.
Classify ==
    /\ rpc = "loop"
    /\ idx <= Len(queries)
    /\ routerCalls' = routerCalls + 1
    /\ LET query == queries[idx] IN
       \/ RHalt("loop", "EncoderError") /\ UNCHANGED <<idx, report>>
       \/ /\ report' = Append(report, [query |-> PyStr(query.query),
                                        category |-> PyStr(query.category),
                                        route |-> router[query.query]])
          /\ idx' = idx + 1
          /\ UNCHANGED <<rpc, rhalted>>
    /\ UNCHANGED <<renv, router, queriesFile, queries, reportFile>>
    /\ UNCHANGED nlvars

\* lines 40-42: open("report.json", "w").write(json.dumps(report, indent=4))
SaveReport ==
    /\ rpc = "loop"
    /\ idx > Len(queries)
    /\ reportFile' = [writes |-> reportFile.writes + 1, text |-> json_dumps(report)]
    /\ rpc' = "done"
    /\ UNCHANGED <<renv, router, queriesFile, queries, idx, report, routerCalls, rhalted>>
    /\ UNCHANGED nlvars

\* ---------------------------------------------------------------------
\* A run executes one of the two scripts; the other stays idle.
\* ---------------------------------------------------------------------
IdleNL ==
    /\ pc = "idle"
    /\ db = [kind |-> "ok", tables |-> {}, nrows |-> 0]
    /\ env = [OPENROUTER_API_KEY |-> FALSE, OPENAI_API_KEY |-> FALSE]
    /\ table_name = Unbound /\ column_info = Unbound /\ table_sample = Unbound
    /\ nl_query = Unbound /\ prompt = <<>> /\ sentPrompt = <<>>
    /\ client = "none" /\ response = <<>>
    /\ sql_query = Unbound /\ result = <<>>
    /\ conns = [o \in Owners |-> "none"]
    /\ stdout = <<>> /\ halted = NotHalted
    /\ dbAccesses = 0 /\ modelCalls = 0 /\ execInvocations = 0 /\ execCalls = 0

IdleRouter ==
    /\ rpc = "idle"
    /\ renv = FALSE
    /\ router = [q \in QueryTexts |-> PyNone]
    /\ queriesFile = [exists |-> FALSE, records |-> <<>>]
    /\ queries = <<>> /\ idx = 0
    /\ report = <<>>
    /\ reportFile = [writes |-> 0, text |-> <<>>]
    /\ routerCalls = 0
    /\ rhalted = NotHalted

Init == (InitNL /\ IdleRouter) \/ (IdleNL /\ InitRouter)

Next ==
    \/ GetColumnInfo
    \/ GetTableSample
    \/ BuildPrompt
    \/ MakeClient
    \/ CallModel
    \/ ParseResponse
    \/ RunQuery
    \/ MakeEncoder
    \/ MakeRouter
    \/ LoadQueries
    \/ Classify
    \/ SaveReport

Spec == Init /\ [][Next]_vars

\* =====================================================================
\* Properties
\* =====================================================================
Contains(seq, x) == \E i \in 1..Len(seq) : seq[i] = x

\* the parsing block (lines 63-73) has run
Parsed == pc \in {"run_query", "done"} \/ (pc = "halted" /\ halted.at \in {"parse", "run_query"})

\* the execution block (lines 75-87) has run
RunDone == pc = "done" \/ (pc = "halted" /\ halted.at = "run_query")

\* the reply is a JSON text in the sense of RFC 8259
ValidJSON(reply) == Decode(reply, FALSE).exc = ""

\* the reply is valid JSON whose value is an object with key "sql_query"
KeyPresent(reply) ==
    /\ ValidJSON(reply)
    /\ Decode(reply, FALSE).val.t = "dict"
    /\ HasKey(Decode(reply, FALSE).val, "sql_query")

\* C1: a reply that is valid JSON but has no sql_query key (or is not an
\* object) yields sql_query = None with the error reported, no uncaught
\* exception, and the executor is not invoked.
C1_MissingKeyYieldsAbsent ==
    (Parsed /\ ValidJSON(response) /\ ~KeyPresent(response)) =>
        /\ halted = NotHalted
        /\ sql_query = PyNone
        /\ Contains(stdout, "Error: Could not decode the JSON string")
        /\ execInvocations = 0 /\ execCalls = 0 /\ conns["executor"] = "none"

\* C2: a reply that is not valid JSON yields sql_query = None and the
\* executor is never invoked: no connection opened for execution, no SQL run.
C2_InvalidJSONNeverExecutes ==
    (Parsed /\ ~ValidJSON(response)) =>
        /\ sql_query = PyNone
        /\ execInvocations = 0 /\ execCalls = 0 /\ conns["executor"] = "none"

\* C3 (as claimed): whenever the reply carries the key sql_query, the query
\* is attempted against the database exactly once, and a failure neither
\* retries nor changes sql_query.
C3_KeyPresentAttemptedOnce ==
    (RunDone /\ KeyPresent(response)) =>
        /\ execInvocations = 1 /\ execCalls <= 1
        /\ sql_query = Subscript(Decode(response, FALSE).val, "sql_query").val

\* C3 (amended): whenever the parsed sql_query value is truthy, the execution
\* block is entered exactly once and calls cursor.execute at most once (exactly
\* once when the connection opens); when it is falsy the block is not entered;
\* the block never changes sql_query, so a failure leaves it as parsed.
C3_TruthyAttemptedOnce ==
    /\ [](RunDone =>
            IF Truthy(sql_query)
            THEN /\ execInvocations = 1
                 /\ execCalls = (IF db.kind = "unopenable" THEN 0 ELSE 1)
            ELSE execInvocations = 0 /\ execCalls = 0)
    /\ [](~RunDone => execInvocations = 0 /\ execCalls = 0)
    /\ [][pc = "run_query" => sql_query' = sql_query]_vars

\* an execution that failed with a SQLite error: attempted once, not retried
W_C3 ==
    /\ pc = "done" /\ sql_query = PyStr("SELEC") /\ db.kind = "ok"
    /\ execInvocations = 1 /\ execCalls = 1 /\ Contains(stdout, "SQLite error")

\* C4: after the execution block finishes, on success or on a SQLite error,
\* no connection opened by it remains open.
C4_ExecutorConnectionClosed == RunDone => conns["executor"] # "open"

\* C5: when get_column_info / get_table_sample has returned, the connection
\* it opened is closed, on the error paths too.
C5_HelpersCloseConnection ==
    conns["get_column_info"] # "open" /\ conns["get_table_sample"] # "open"

\* C6: a configuration error (missing credential, missing queries.json) ends
\* the run before any database access, model or router call, or output.
C6_ConfigErrorBeforeAnyWork ==
    /\ (pc = "halted" /\ halted.exc = "OpenAIError") =>
            dbAccesses = 0 /\ modelCalls = 0 /\ stdout = <<>>
    /\ (rpc = "halted" /\ rhalted.exc \in {"ValueError", "FileNotFoundError"}) =>
            routerCalls = 0 /\ reportFile.writes = 0

\* the chat-completion call was made and no reply came back
TransportFailed == modelCalls > 0 /\ ~Contains(stdout, "response")

\* C7: a transport error of the model call propagates and halts the run: it
\* is not turned into sql_query = None and no SQL is executed afterwards.
C7_TransportErrorPropagates ==
    TransportFailed =>
        /\ pc = "halted" /\ halted = [at |-> "call", exc |-> "APIError"]
        /\ sql_query = Unbound
        /\ execInvocations = 0 /\ execCalls = 0 /\ conns["executor"] = "none"

W_C7 == pc = "halted" /\ halted.exc = "APIError" /\ modelCalls = 1 /\ dbAccesses = 2

\* the RouteAssignment the i-th input record must produce
Assignment(i) ==
    [query |-> PyStr(queries[i].query), category |-> PyStr(queries[i].category),
     route |-> router[queries[i].query]]

\* C8: at every point the report is the image of a prefix of the input, in
\* input order; when no router call failed and the loop is over it has exactly
\* one entry per record and that is what is written.
C8_ReportIsImageOfInput ==
    /\ Len(report) <= Len(queries)
    /\ \A i \in 1..Len(report) : report[i] = Assignment(i)
    /\ rpc = "done" =>
          /\ Len(report) = Len(queries)
          /\ reportFile.writes = 1
          /\ Len(reportFile.text) = Len(queries)

W_C8 ==
    /\ rpc = "done" /\ Len(report) = 3
    /\ report[1].query # report[2].query
    /\ report[1].route = PyNone /\ report[2].route = PyStr("cars")

\* C9: a router failure on a record halts the batch at that record: every
\* router call that produced no report entry is the last call of the run, no
\* later record is classified, no record is skipped, no report file written.
C9_RouterFailureAborts ==
    /\ routerCalls > Len(report) =>
          /\ rpc = "halted" /\ rhalted = [at |-> "loop", exc |-> "EncoderError"]
          /\ routerCalls = Len(report) + 1
          /\ idx = Len(report) + 1
          /\ reportFile.writes = 0
    /\ \A i \in 1..Len(report) : report[i].query = PyStr(queries[i].query)
    /\ reportFile.writes > 0 => routerCalls = Len(queries) /\ Len(report) = Len(queries)

W_C9 ==
    /\ rpc = "halted" /\ rhalted.at = "loop"
    /\ Len(report) = 1 /\ Len(queries) = 3 /\ routerCalls = 2 /\ reportFile.writes = 0

\* the schema lookups fail on this database
ColumnLookupFails == db.kind \in {"unopenable", "corrupt"}
SampleLookupFails == ColumnLookupFails \/ "countries_data" \notin db.tables

\* C10: a schema lookup error never ends the NL2SQL run: the helpers return
\* None / [] and report the error, the script never halts in the lookup or
\* prompt steps, and the prompt sent to the model carries the degraded values.
C10_SchemaErrorDoesNotTerminate ==
    /\ halted.at \notin {"column_info", "table_sample", "prompt"}
    /\ (pc \notin {"idle", "column_info"} /\ ColumnLookupFails) =>
            column_info = PyNone /\ Contains(stdout, "SQLite error")
    /\ (pc \notin {"idle", "column_info", "table_sample"} /\ SampleLookupFails) =>
            table_sample = PyList(<<>>) /\ Contains(stdout, "SQLite error")
    /\ modelCalls > 0 =>
            /\ Len(sentPrompt) = Len(NL2SQL_PROMPT)
            /\ sentPrompt[4] = column_info /\ sentPrompt[8] = table_sample

W_C10 ==
    /\ db.kind = "unopenable" /\ modelCalls = 1 /\ pc = "parse"
    /\ column_info = PyNone /\ table_sample = PyList(<<>>)
    /\ sentPrompt[4] = PyNone
====
